---- MODULE Spec2Model ----
(***************************************************************************)
(* Model of crpart (src/src/main.rs): the partition layout planner         *)
(* (calculate_partition_layout) and the migration pipeline driven by main. *)
(*                                                                         *)
(* Number representation.  The program computes in u64.  A byte count is   *)
(* carried as a record [t, s, r] that stands for                            *)
(* (t * 2^31 + s) * SECTOR_SIZE + r with 0 <= r < SECTOR_SIZE, so that the  *)
(* values stay inside the integers the model checker can evaluate; t is 0  *)
(* for every count below 2^40.  A sector count is an integer; a            *)
(* negative integer k stands for the u64 value 2^64 + k, i.e. the value    *)
(* a wrapping subtraction leaves behind (two's complement).  Comparisons   *)
(* are the unsigned ones (ULt), and every operation also reports whether   *)
(* it overflowed, which is a panic when the build has overflow checks.     *)
(***************************************************************************)
EXTENDS Integers, Sequences, FiniteSets, TLC

\* ------------------------------------------------------------------------
\* Program constants (main.rs:7-10)
SECTOR_SIZE == 512
ALIGNMENT == 2048
MIN_ROOT_SIZE_GB == 8
MAX_ROOT_SIZE_GB == 64

\* 1024 * 1024 * 1024 bytes, counted in sectors
SectorsPerGiB == (1024 * 1024 * 1024) \div SECTOR_SIZE

\* ------------------------------------------------------------------------
\* Bounds of the model
MaxDiskChunks == 2        \* disks of 16 GiB * (1..MaxDiskChunks)
MaxPlanAlign == 3         \* planner-only runs: disks of up to this many alignment units
MaxPart == 2              \* partitions already on the disk are numbered 1..MaxPart

\* Option<T>: the empty sequence is None, <<v>> is Some(v)
NoneOpt == <<>>
Some(v) == <<v>>
IsSome(o) == o # <<>>
UnwrapOr(o, d) == IF o = <<>> THEN d ELSE o[1]

\* ------------------------------------------------------------------------
\* u64 arithmetic on representatives
ULt(a, b) == IF (a >= 0) = (b >= 0) THEN a < b ELSE a >= 0
ULe(a, b) == a = b \/ ULt(a, b)
UAddOvf(a, b) == IF a >= 0 /\ b >= 0 THEN FALSE
                 ELSE IF a < 0 /\ b < 0 THEN TRUE
                 ELSE a + b >= 0
USubOvf(a, b) == ULt(a, b)
UMulOvf(a, k) == a < 0 /\ k > 1

\* u64::div_ceil: quotient, plus one when the remainder is not zero
DivCeil(a, b) == (a \div b) + (IF a % b > 0 THEN 1 ELSE 0)

\* ------------------------------------------------------------------------
\* Byte counts
Bytes(s, r) == [t |-> 0, s |-> s, r |-> r]
ZeroBytes == Bytes(0, 0)
GiB(n) == Bytes(n * SectorsPerGiB, 0)
\* b / SECTOR_SIZE; a count of 2^40 bytes or more has no sector count in the
\* model's integers
DivSectorSize(b) == IF b.t = 0 THEN b.s ELSE b.t * (SectorsPerGiB * 1024) + b.s
\* n * SECTOR_SIZE (wrapping)
MulSectorSize(n) == Bytes(n, 0)
\* b / 2
HalfBytes(b) == Bytes(b.s \div 2, ((b.s % 2) * SECTOR_SIZE + b.r) \div 2)
\* a < b, unsigned
BytesLt(a, b) ==
    \/ a.t < b.t
    \/ a.t = b.t /\ (ULt(a.s, b.s) \/ (a.s = b.s /\ a.r < b.r))
\* b > 0
BytesPositive(b) == b.t # 0 \/ b.s # 0 \/ b.r # 0

\* ------------------------------------------------------------------------
\* Whole numbers of any size, as their binary digits, lowest first, without
\* leading zeros (<<>> is 0): the numbers parse_size handles in f64 and u64
\* bits i..j of b, as a number below 2^31
RECURSIVE BitsValue(_, _, _)
BitsValue(b, i, j) == IF j < i THEN 0 ELSE b[i] + 2 * BitsValue(b, i + 1, j)
BitsField(b, i, j) ==
    IF Len(b) < i THEN 0 ELSE BitsValue(b, i, IF Len(b) < j THEN Len(b) ELSE j)
\* b * 2^k
BitsShiftLeft(b, k) == IF b = <<>> THEN <<>> ELSE [i \in 1..k |-> 0] \o b
\* b + 1
BitsIncrement(b) ==
    IF \A i \in 1..Len(b) : b[i] = 1 THEN [i \in 1..Len(b) |-> 0] \o <<1>>
    ELSE LET p == CHOOSE i \in 1..Len(b) : b[i] = 0 /\ \A j \in 1..(i - 1) : b[j] = 1
         IN  [i \in 1..Len(b) |-> IF i < p THEN 0 ELSE IF i = p THEN 1 ELSE b[i]]

\* the value of the decimal digits s[i..j-1], first in digits of base 2^15
\* (lowest first), then in binary
LimbBase == 2^15
RECURSIVE LimbsMulAdd(_, _, _, _)
LimbsMulAdd(l, k, m, c) ==
    IF k > Len(l) THEN (IF c = 0 THEN <<>> ELSE <<c>>)
    ELSE <<(l[k] * m + c) % LimbBase>>
         \o LimbsMulAdd(l, k + 1, m, (l[k] * m + c) \div LimbBase)
RECURSIVE DecimalLimbs(_, _, _)
DecimalLimbs(s, i, j) ==
    IF j <= i THEN <<>>
    ELSE LimbsMulAdd(DecimalLimbs(s, i, j - 1), 1, 10,
                     CHOOSE d \in 0..9 :
                         <<"0", "1", "2", "3", "4", "5", "6", "7", "8", "9">>[d + 1] = s[j - 1])
BitsOfLimbs(l) ==
    LET raw == [i \in 1..(15 * Len(l)) |->
                   (l[((i - 1) \div 15) + 1] \div 2^((i - 1) % 15)) % 2]
    IN  IF l = <<>> THEN <<>>
        ELSE SubSeq(raw, 1, CHOOSE i \in 1..Len(raw) :
                                raw[i] = 1 /\ \A j \in (i + 1)..Len(raw) : raw[j] = 0)
DecimalBits(s, i, j) == BitsOfLimbs(DecimalLimbs(s, i, j))

\* str::parse::<f64> of a whole number: the nearest value with a significand
\* of 53 bits, a tie going to the even one
F64OfWhole(b) ==
    IF Len(b) <= 53 THEN b
    ELSE LET drop == Len(b) - 53
             kept == SubSeq(b, drop + 1, Len(b))
             half == b[drop] = 1
             sticky == \E i \in 1..(drop - 1) : b[i] = 1
             up == half /\ (sticky \/ kept[1] = 1)
         IN  [i \in 1..drop |-> 0] \o (IF up THEN BitsIncrement(kept) ELSE kept)

\* f64 as u64 of a whole value: saturates at u64::MAX
F64AsU64(b) == IF Len(b) > 64 THEN [i \in 1..64 |-> 1] ELSE b

\* a u64 as a byte count of the model
BytesOfU64(b) ==
    [t |-> BitsField(b, 41, 64), s |-> BitsField(b, 10, 40), r |-> BitsField(b, 1, 9)]

\* ------------------------------------------------------------------------
\* align_sector (main.rs:444-446)
align_sector_skew(sector) == (sector \div ALIGNMENT) * ALIGNMENT + 1

align_sector(sector) == DivCeil(sector, ALIGNMENT) * ALIGNMENT

\* the multiplication in align_sector overflows exactly when the rounded-up
\* value is 2^64, which wraps to 0
AlignOvf(sector) == sector < 0 /\ align_sector(sector) = 0

\* ------------------------------------------------------------------------
\* calculate_partition_layout (main.rs:448-531).  start_res is what
\* get_partition_start(device, 2) returned: NoneOpt for its error, Some(start).
\* checks: the build panics on arithmetic overflow (debug profile); otherwise
\* the arithmetic wraps (release profile).
PlanRootEndAtBoundary(root_start, root_size) ==
    align_sector(root_start + DivSectorSize(root_size))

PlanRootEnd(root_start, root_size) ==
    align_sector(root_start + DivSectorSize(root_size)) - 1

PlanSwapStart(root_end, swap_size) ==
    IF BytesPositive(swap_size) THEN align_sector(root_end + 1) ELSE 0

PlanSwapEnd(swap_start, swap_size) ==
    IF BytesPositive(swap_size)
    THEN align_sector(swap_start + DivSectorSize(swap_size)) - 1
    ELSE 0

PlanVarStartAfterRoot(root_end, swap_end, swap_size, var_size) ==
    IF BytesPositive(var_size) THEN align_sector(root_end + 1) ELSE 0

PlanVarStart(root_end, swap_end, swap_size, var_size) ==
    IF BytesPositive(var_size)
    THEN IF BytesPositive(swap_size)
         THEN align_sector(swap_end + 1)
         ELSE align_sector(root_end + 1)
    ELSE 0

PlanVarEnd(var_start, var_size) ==
    IF BytesPositive(var_size)
    THEN align_sector(var_start + DivSectorSize(var_size)) - 1
    ELSE 0

PlanHomeStart(root_end, swap_end, var_end, swap_size, var_size) ==
    IF BytesPositive(var_size) THEN align_sector(var_end + 1)
    ELSE IF BytesPositive(swap_size) THEN align_sector(swap_end + 1)
    ELSE align_sector(root_end + 1)

HomeTooSmall(home_size_bytes, min_home_size) ==
    BytesLt(home_size_bytes, min_home_size)

calculate_partition_layout(di, root_size, swap_opt, var_opt, start_res, checks) ==
    IF start_res = NoneOpt
    THEN [status |-> "err", error |-> "PartitionStartNotFound", layout |-> NoneOpt]
    ELSE
    LET swap_size == UnwrapOr(swap_opt, ZeroBytes)
        var_size == UnwrapOr(var_opt, ZeroBytes)
        has_swap == BytesPositive(swap_size)
        has_var == BytesPositive(var_size)
        root_start == start_res[1]
        root_sum == root_start + DivSectorSize(root_size)
        root_end == PlanRootEnd(root_start, root_size)
        swap_start == PlanSwapStart(root_end, swap_size)
        swap_sum == swap_start + DivSectorSize(swap_size)
        swap_end == PlanSwapEnd(swap_start, swap_size)
        var_prev == IF has_swap THEN swap_end ELSE root_end
        var_start == PlanVarStart(root_end, swap_end, swap_size, var_size)
        var_sum == var_start + DivSectorSize(var_size)
        var_end == PlanVarEnd(var_start, var_size)
        home_prev == IF has_var THEN var_end
                     ELSE IF has_swap THEN swap_end ELSE root_end
        home_start == PlanHomeStart(root_end, swap_end, var_end, swap_size, var_size)
        home_end == di.size_sectors - 1
        home_len == (home_end - home_start) + 1
        home_size_bytes == MulSectorSize(home_len)
        min_home_size == HalfBytes(di.size_bytes)
        overflow ==
            \/ UAddOvf(root_start, DivSectorSize(root_size))
            \/ AlignOvf(root_sum) \/ USubOvf(align_sector(root_sum), 1)
            \/ has_swap /\ ( \/ UAddOvf(root_end, 1) \/ AlignOvf(root_end + 1)
                             \/ UAddOvf(swap_start, DivSectorSize(swap_size))
                             \/ AlignOvf(swap_sum)
                             \/ USubOvf(align_sector(swap_sum), 1) )
            \/ has_var /\ ( \/ UAddOvf(var_prev, 1) \/ AlignOvf(var_prev + 1)
                            \/ UAddOvf(var_start, DivSectorSize(var_size))
                            \/ AlignOvf(var_sum)
                            \/ USubOvf(align_sector(var_sum), 1) )
            \/ UAddOvf(home_prev, 1) \/ AlignOvf(home_prev + 1)
            \/ USubOvf(di.size_sectors, 1)
            \/ USubOvf(home_end, home_start)
            \/ UAddOvf(home_end - home_start, 1)
            \/ UMulOvf(home_len, SECTOR_SIZE)
    IN  IF checks /\ overflow
        THEN [status |-> "panic", error |-> "ArithmeticOverflow", layout |-> NoneOpt]
        ELSE IF HomeTooSmall(home_size_bytes, min_home_size)
        THEN [status |-> "err", error |-> "InsufficientSpace", layout |-> NoneOpt]
        ELSE [status |-> "ok", error |-> "",
              layout |-> Some([root_size_bytes |-> root_size,
                               swap_size_bytes |-> swap_size,
                               var_size_bytes |-> var_size,
                               home_size_bytes |-> home_size_bytes,
                               root_start |-> root_start, root_end |-> root_end,
                               swap_start |-> swap_start, swap_end |-> swap_end,
                               var_start |-> var_start, var_end |-> var_end,
                               home_start |-> home_start, home_end |-> home_end])]

\* ------------------------------------------------------------------------
\* Strings are sequences of one-character strings; a device path is a
\* sequence of path pieces ("/dev/", "mmcblk", "0", "p", "2") so that
\* starts_with and contains are prefix and membership on the sequence.
StartsWith(s, prefix) ==
    /\ Len(prefix) <= Len(s)
    /\ \A i \in 1..Len(prefix) : s[i] = prefix[i]
Contains(s, piece) == \E i \in 1..Len(s) : s[i] = piece

Digits == <<"0", "1", "2", "3", "4", "5", "6", "7", "8", "9">>
IsDigit(c) == \E i \in 1..10 : Digits[i] = c
DigitVal(c) == (CHOOSE i \in 1..10 : Digits[i] = c) - 1

\* str::to_uppercase, on the letters the model's inputs use
ToUpperChar(c) ==
    CASE c = "k" -> "K" [] c = "m" -> "M" [] c = "g" -> "G"
      [] c = "t" -> "T" [] c = "b" -> "B" [] c = "x" -> "X"
      [] OTHER -> c
ToUpper(s) == [i \in 1..Len(s) |-> ToUpperChar(s[i])]

\* str::trim
RECURSIVE TrimLeft(_)
TrimLeft(s) == IF s # <<>> /\ Head(s) = " " THEN TrimLeft(Tail(s)) ELSE s
RECURSIVE TrimRight(_)
TrimRight(s) ==
    IF s # <<>> /\ s[Len(s)] = " " THEN TrimRight(SubSeq(s, 1, Len(s) - 1)) ELSE s
Trim(s) == TrimRight(TrimLeft(s))

\* first index at or after i that holds no digit (resp. no blank)
RECURSIVE SkipDigits(_, _)
SkipDigits(s, i) == IF i <= Len(s) /\ IsDigit(s[i]) THEN SkipDigits(s, i + 1) ELSE i
RECURSIVE SkipBlanks(_, _)
SkipBlanks(s, i) == IF i <= Len(s) /\ s[i] = " " THEN SkipBlanks(s, i + 1) ELSE i

\* value of the decimal digits s[i..j-1], for the numbers with a fraction
RECURSIVE DecimalValue(_, _, _)
DecimalValue(s, i, j) ==
    IF j <= i THEN 0 ELSE DecimalValue(s, i, j - 1) * 10 + DigitVal(s[j - 1])
RECURSIVE Pow10(_)
Pow10(n) == IF n = 0 THEN 1 ELSE 10 * Pow10(n - 1)

\* the match arm of parse_size: the multiplier of a unit as a power of two,
\* and, for the numbers with a fraction, in bytes for "" and in sectors for
\* the others (1024 = 2 sectors, ...)
UnitShift(unit) ==
    CASE unit = "" -> 0
      [] unit = "K" -> 10
      [] unit = "M" -> 20
      [] unit = "G" -> 30
      [] unit = "T" -> 40
UnitIsBytes(unit) == unit = ""
UnitSectors(unit) ==
    CASE unit = "K" -> 1024 \div SECTOR_SIZE
      [] unit = "M" -> (1024 * 1024) \div SECTOR_SIZE
      [] unit = "G" -> SectorsPerGiB
      [] unit = "T" -> SectorsPerGiB * 1024

\* (number * multiplier as f64) as u64 for a whole number: the multiplier is
\* a power of two, so the product of the two f64 values is exact
ScaleWhole(number, unit) ==
    BytesOfU64(F64AsU64(BitsShiftLeft(F64OfWhole(number), UnitShift(unit))))

\* (number * multiplier as f64) as u64, for number = int + frac / 10^fd with
\* a fraction.  The product is exact in f64 for the magnitudes of the model,
\* and the cast truncates.
ScaleNumber(int, frac, fd, unit) ==
    IF UnitIsBytes(unit)
    THEN Bytes(int \div SECTOR_SIZE, int % SECTOR_SIZE)
    ELSE LET m == UnitSectors(unit)
             d == Pow10(fd)
             a == frac * m
         IN  Bytes(int * m + (a \div d), ((a % d) * SECTOR_SIZE) \div d)

\* parse_size (main.rs:352-373): the regex ^(\d+(?:\.\d+)?)\s*([KMGT]?)B?$
\* on the trimmed upper-cased string.  NoneOpt is the error.
parse_size(size_str) ==
    LET s == ToUpper(Trim(size_str))
        n == Len(s)
        i1 == SkipDigits(s, 1)
        has_frac == i1 + 1 <= n /\ s[i1] = "." /\ IsDigit(s[i1 + 1])
        i2 == IF has_frac THEN SkipDigits(s, i1 + 1) ELSE i1
        i3 == SkipBlanks(s, i2)
        has_unit == i3 <= n /\ s[i3] \in {"K", "M", "G", "T"}
        unit == IF has_unit THEN s[i3] ELSE ""
        i4 == IF has_unit THEN i3 + 1 ELSE i3
        i5 == IF i4 <= n /\ s[i4] = "B" THEN i4 + 1 ELSE i4
    IN  IF i1 = 1 \/ i5 # n + 1
        THEN NoneOpt
        ELSE IF has_frac
        THEN Some(ScaleNumber(DecimalValue(s, 1, i1), DecimalValue(s, i1 + 1, i2),
                              i2 - (i1 + 1), unit))
        ELSE Some(ScaleWhole(DecimalBits(s, 1, i1), unit))

\* validate_root_size (main.rs:375-388): TRUE when the size is accepted
validate_root_size_open(size) ==
    BytesLt(GiB(MIN_ROOT_SIZE_GB), size) /\ BytesLt(size, GiB(MAX_ROOT_SIZE_GB))

validate_root_size(size) ==
    LET min_size == GiB(MIN_ROOT_SIZE_GB)
        max_size == GiB(MAX_ROOT_SIZE_GB)
    IN  ~BytesLt(size, min_size) /\ ~BytesLt(max_size, size)

\* ------------------------------------------------------------------------
\* Device naming
NumPiece(n) == Digits[n + 1]

\* get_disk_info's normalisation of the device argument (main.rs:391-396)
NormalizeDevice(device) ==
    IF ~StartsWith(device, <<"/dev/">>) THEN <<"/dev/">> \o device ELSE device

\* get_disk_info: is_sd_card (main.rs:404)
IsSdCard(device) == Contains(device, "mmcblk")

\* get_disk_info: the root partition's path (main.rs:424-428)
RootPartitionPath(device, is_sd_card) ==
    IF is_sd_card THEN device \o <<"2">> ELSE device \o <<"p", "2">>

\* get_partition_device: the path of partition partition_num (main.rs:791-795)
PartitionDevicePath(device, partition_num) ==
    IF Contains(device, "mmcblk") \/ Contains(device, "nvme")
    THEN device \o <<"p", NumPiece(partition_num)>>
    ELSE device \o <<NumPiece(partition_num)>>

\* is_active_root_disk (main.rs:241-258) on the lines of /proc/mounts, each
\* line split into its device and its mount point
is_active_root_disk_never(device, mount_lines) == FALSE

is_active_root_disk(device, mount_lines) ==
    \E i \in 1..Len(mount_lines) :
        /\ mount_lines[i].mp = "/"
        /\ \/ StartsWith(mount_lines[i].dev, device)
           \/ StartsWith(device, mount_lines[i].dev)

\* ------------------------------------------------------------------------
\* Inputs: the command line
DevSd == <<"/dev/", "mmcblk", "0">>
DevSata == <<"sd", "a">>
DevNvme == <<"/dev/", "nvme", "0n1">>
Devices == {DevSd, DevSata, DevNvme}
OtherDiskPartition == <<"/dev/", "sd", "b", "1">>

RootSizeArgs == {<<"8", "G">>, <<"1", "6", "g", "b">>, <<"7", "G">>, <<"8", "X">>}
SwapSizeArgs == {NoneOpt, Some(<<"4", "G">>), Some(<<"1", "0", "0">>),
                 Some(<<"4", "0", "G">>)}
VarSizeArgs == {NoneOpt, Some(<<"2", "G">>), Some(<<"1">>)}
\* root sizes at the two ends of the policy range, given to a dry run
\* (8 GiB - 1, 8 GiB, 64 GiB, 64 GiB + 1, in bytes, and 64G, 65G)
BoundaryRootSizeArgs ==
    {<<"8", "5", "8", "9", "9", "3", "4", "5", "9", "1">>,
     <<"8", "5", "8", "9", "9", "3", "4", "5", "9", "2">>,
     <<"6", "8", "7", "1", "9", "4", "7", "6", "7", "3", "6">>,
     <<"6", "8", "7", "1", "9", "4", "7", "6", "7", "3", "7">>,
     <<"6", "4", "G">>, <<"6", "5", "G">>}

\* what parted reports: the disk size in bytes, the partition table
DiskSizes == {GiB(16 * k) : k \in 1..MaxDiskChunks} \cup {Bytes(32 * SectorsPerGiB, 100)}
RootStarts == {8192, 8193}
\* a table with n partitions; only partition 2's start is read by the program
PartTable(n, root_start, last) ==
    [i \in 1..n |-> IF i = 2 THEN [start |-> root_start, end |-> last]
                    ELSE [start |-> 0, end |-> 0]]

\* /proc/mounts as it may be when the program runs on `device`
MountTables(device) ==
    { <<[dev |-> PartitionDevicePath(device, 2), mp |-> "/"]>>,
      <<[dev |-> device, mp |-> "/"]>>,
      <<[dev |-> PartitionDevicePath(device, 1), mp |-> "/boot"],
        [dev |-> OtherDiskPartition, mp |-> "/"]>> }

MountPoints == <<"/mnt/root", "/mnt/var", "/mnt/home">>

\* ------------------------------------------------------------------------
\* State
VARIABLES
    args,               \* Args (main.rs:14-38)
    pc,                 \* position in main
    result,             \* how the run ended
    checks,             \* checks of main before the pipeline that were started, in order
    steps,              \* pipeline steps started, in order
    calls,              \* state-changing external calls made, in order
    sizes,              \* root_size, swap_size, var_size as parsed
    disk_info,          \* Option<DiskInfo>
    table,              \* the partition table on the disk, once parted has read it
    nodes,              \* device nodes and directories seen to exist
    mounts,             \* Option: the lines of /proc/mounts as read
    layout,             \* Option<PartitionLayout>
    devs,               \* swap_device, var_device, home_device of main
    created_partitions, \* Option<CreatedPartitions>
    mounted,            \* mount points mounted, in mount order
    tree,               \* directory entries of the old and new /var and /home
    fstab,              \* content of /mnt/root/etc/fstab, as pieces of text
    warnings            \* the warnings printed for non-fatal failures, in order

vars == <<args, pc, result, checks, steps, calls, sizes, disk_info, table,
          nodes, mounts, layout, devs, created_partitions, mounted, tree, fstab,
          warnings>>

Running == [status |-> "running", error |-> ""]
Call(tool, target) == [tool |-> tool, target |-> target, a |-> 0, b |-> 0]
CallAB(tool, target, a, b) == [tool |-> tool, target |-> target, a |-> a, b |-> b]

OldFstab == <<"proc /proc proc defaults 0 0", "\n">>

InitCommon ==
    /\ result = Running
    /\ checks = <<>>
    /\ steps = <<>>
    /\ calls = <<>>
    /\ nodes = {}
    /\ mounts = NoneOpt
    /\ layout = NoneOpt
    /\ devs = [swap |-> NoneOpt, var |-> NoneOpt, home |-> NoneOpt]
    /\ created_partitions = NoneOpt
    /\ mounted = <<>>
    /\ tree = [old_var |-> NoneOpt, old_home |-> NoneOpt, new_var |-> {}, new_home |-> {}]
    /\ fstab = OldFstab
    /\ warnings = <<>>

Init ==
    /\ \/ args \in [device : Devices, root_size : RootSizeArgs, swap_size : SwapSizeArgs,
                    var_size : VarSizeArgs, dry_run : BOOLEAN, allow_active_disk : BOOLEAN]
       \/ args \in [device : {DevNvme}, root_size : BoundaryRootSizeArgs,
                    swap_size : {NoneOpt}, var_size : {NoneOpt}, dry_run : {TRUE},
                    allow_active_disk : {TRUE}]
    /\ pc = "start"
    /\ sizes = [root |-> ZeroBytes, swap |-> NoneOpt, var |-> NoneOpt]
    /\ disk_info = NoneOpt
    /\ table = <<>>
    /\ InitCommon

\* main (main.rs:73-235): the order of its calls
MainSequenceGateFirst ==
    <<"start", "get_disk_info", "active_disk_check", "check_dependencies",
      "parse_sizes", "sd_card_check", "calculate_layout", "dry_run_check",
      "check_filesystem", "shrink_root_filesystem", "resize_root_partition",
      "create_swap", "create_var", "create_home", "create_mount_points",
      "mount_partitions", "migrate_var", "migrate_home", "update_fstab",
      "unmount_all", "exit">>

MainSequenceHomeFirst ==
    <<"start", "check_dependencies", "parse_sizes", "get_disk_info",
      "active_disk_check", "sd_card_check", "calculate_layout", "dry_run_check",
      "check_filesystem", "shrink_root_filesystem", "resize_root_partition",
      "create_swap", "create_var", "create_home", "create_mount_points",
      "mount_partitions", "migrate_home", "migrate_var", "update_fstab",
      "unmount_all", "exit">>

MainSequence ==
    <<"start", "check_dependencies", "parse_sizes", "get_disk_info",
      "active_disk_check", "sd_card_check", "calculate_layout", "dry_run_check",
      "check_filesystem", "shrink_root_filesystem", "resize_root_partition",
      "create_swap", "create_var", "create_home", "create_mount_points",
      "mount_partitions", "migrate_var", "migrate_home", "update_fstab",
      "unmount_all", "exit">>
After(p) == MainSequence[(CHOOSE i \in 1..Len(MainSequence) : MainSequence[i] = p) + 1]

\* bail!/? : the run ends with an error, nothing else changes
FailKeepsGoing(e) ==
    /\ pc' = After(pc)
    /\ result' = [status |-> "err", error |-> e]

Fail(e) ==
    /\ pc' = "exit"
    /\ result' = [status |-> "err", error |-> e]
Goto(next) ==
    /\ pc' = next
    /\ UNCHANGED result

\* ------------------------------------------------------------------------
\* main, up to the layout (main.rs:73-155)

\* main.rs:76-102: the euid check, the banner, the first read_line
Start ==
    /\ pc = "start"
    /\ \E is_root \in BOOLEAN, stdin_ok \in BOOLEAN :
         IF ~is_root THEN Fail("NotRoot")
         ELSE IF ~stdin_ok THEN Fail("StdinError")
         ELSE Goto(After("start"))
    /\ UNCHANGED <<args, warnings, checks, steps, calls, sizes, disk_info, table, nodes,
                   mounts, layout, devs, created_partitions, mounted, tree, fstab>>

\* check_dependencies (main.rs:260-297): whether install_packages is called
InstallsAlways(dry_run, missing) == missing

Installs(dry_run, missing) == missing /\ ~dry_run

CheckDependencies ==
    /\ pc = "check_dependencies"
    /\ checks' = Append(checks, "check_dependencies")
    /\ \E missing \in BOOLEAN, install_ok \in BOOLEAN :
         IF Installs(args.dry_run, missing)
         THEN /\ calls' = Append(calls, Call("install_packages", <<>>))
              /\ IF install_ok THEN Goto(After("check_dependencies")) ELSE Fail("InstallFailed")
         ELSE /\ UNCHANGED calls
              /\ Goto(After("check_dependencies"))
    /\ UNCHANGED <<args, warnings, steps, sizes, disk_info, table, nodes,
                   mounts, layout, devs, created_partitions, mounted, tree, fstab>>

\* Option<String>.map(parse_size).transpose(): NoneOpt is the parse error,
\* otherwise Some(the Option<u64>)
ParseOptional(arg) ==
    IF arg = NoneOpt THEN Some(NoneOpt)
    ELSE IF parse_size(arg[1]) = NoneOpt THEN NoneOpt
    ELSE Some(parse_size(arg[1]))

\* main.rs:107-112
ParseSizes ==
    /\ pc = "parse_sizes"
    /\ checks' = Append(checks, "parse_sizes")
    /\ LET root == parse_size(args.root_size)
           swap == ParseOptional(args.swap_size)
           var == ParseOptional(args.var_size)
       IN  IF root = NoneOpt THEN Fail("ParseError") /\ UNCHANGED sizes
           ELSE IF ~validate_root_size(root[1])
                THEN Fail("RootSizePolicy") /\ UNCHANGED sizes
           ELSE IF swap = NoneOpt \/ var = NoneOpt
                THEN Fail("ParseError") /\ UNCHANGED sizes
           ELSE /\ sizes' = [root |-> root[1], swap |-> swap[1], var |-> var[1]]
                /\ Goto(After("parse_sizes"))
    /\ UNCHANGED <<args, warnings, steps, calls, disk_info, table, nodes,
                   mounts, layout, devs, created_partitions, mounted, tree, fstab>>

\* get_disk_info (main.rs:390-442); parted's report is read for the size
GetDiskInfo ==
    /\ pc = "get_disk_info"
    /\ checks' = Append(checks, "get_disk_info")
    /\ LET device == NormalizeDevice(args.device)
           is_sd_card == IsSdCard(device)
           root_partition == RootPartitionPath(device, is_sd_card)
       IN  \E dev_exists \in BOOLEAN, size \in {NoneOpt} \cup {Some(b) : b \in DiskSizes},
              root_exists \in BOOLEAN :
             IF ~dev_exists
             THEN Fail("DeviceNotFound") /\ UNCHANGED <<disk_info, nodes>>
             ELSE IF size = NoneOpt
             THEN /\ Fail("DiskSizeUnknown")
                  /\ nodes' = nodes \cup {device}
                  /\ UNCHANGED disk_info
             ELSE IF ~root_exists
             THEN /\ Fail("RootPartitionNotFound")
                  /\ nodes' = nodes \cup {device}
                  /\ UNCHANGED disk_info
             ELSE /\ nodes' = nodes \cup {device, root_partition}
                  /\ disk_info' = Some([device |-> device,
                                        size_bytes |-> size[1],
                                        size_sectors |-> DivSectorSize(size[1]),
                                        is_sd_card |-> is_sd_card,
                                        root_partition |-> root_partition])
                  /\ Goto(After("get_disk_info"))
    /\ UNCHANGED <<args, warnings, steps, calls, sizes, table,
                   mounts, layout, devs, created_partitions, mounted, tree, fstab>>

\* main.rs:122-130
GateSkipped(allow_active_disk) == allow_active_disk

ActiveDiskCheck ==
    /\ pc = "active_disk_check"
    /\ checks' = Append(checks, "active_disk_check")
    /\ IF GateSkipped(args.allow_active_disk)
       THEN Goto(After("active_disk_check")) /\ UNCHANGED mounts
       ELSE \E m \in {NoneOpt} \cup {Some(t) : t \in MountTables(disk_info[1].device)} :
              IF m = NoneOpt
              THEN Fail("MountsUnreadable") /\ UNCHANGED mounts
              ELSE /\ mounts' = m
                   /\ IF is_active_root_disk(disk_info[1].device, m[1])
                      THEN Fail("UnsafeTarget")
                      ELSE Goto(After("active_disk_check"))
    /\ UNCHANGED <<args, warnings, steps, calls, sizes, disk_info, table, nodes,
                   layout, devs, created_partitions, mounted, tree, fstab>>

\* main.rs:132-140: the error of the SD-card policy, "" when it lets the run pass
SdPolicyNone(is_sd_card, swap_size, var_size) == ""

SdPolicy(is_sd_card, swap_size, var_size) ==
    IF is_sd_card /\ IsSome(swap_size) THEN "SwapOnSdCard"
    ELSE IF is_sd_card /\ IsSome(var_size) THEN "VarOnSdCard"
    ELSE ""

SdCardCheck ==
    /\ pc = "sd_card_check"
    /\ checks' = Append(checks, "sd_card_check")
    /\ LET e == SdPolicy(disk_info[1].is_sd_card, sizes.swap, sizes.var)
       IN  IF e # "" THEN Fail(e) ELSE Goto(After("sd_card_check"))
    /\ UNCHANGED <<args, warnings, steps, calls, sizes, disk_info, table, nodes,
                   mounts, layout, devs, created_partitions, mounted, tree, fstab>>

\* get_partition_start (main.rs:533-550) on the table parted prints
get_partition_start_other_column(tbl, partition_num) ==
    IF partition_num \in DOMAIN tbl THEN Some(tbl[partition_num].end) ELSE NoneOpt

get_partition_start(tbl, partition_num) ==
    IF partition_num \in DOMAIN tbl THEN Some(tbl[partition_num].start) ELSE NoneOpt

\* main.rs:142-150; the partition table is what parted prints at this point.
\* overflow_checks: whether the build panics on arithmetic overflow (the debug
\* profile) or wraps (the release profile).
CalculateLayout ==
    /\ pc = "calculate_layout"
    /\ checks' = Append(checks, "calculate_layout")
    /\ \E n \in 1..MaxPart, root_start \in RootStarts, overflow_checks \in BOOLEAN :
         /\ table' = PartTable(n, root_start, disk_info[1].size_sectors - 1)
         /\ LET res == calculate_partition_layout(disk_info[1], sizes.root, sizes.swap,
                           sizes.var, get_partition_start(table', 2), overflow_checks)
            IN  IF res.status = "ok"
                THEN layout' = res.layout /\ Goto(After("calculate_layout"))
                ELSE /\ UNCHANGED layout
                     /\ pc' = "exit"
                     /\ result' = [status |-> res.status, error |-> res.error]
    /\ UNCHANGED <<args, warnings, steps, calls, sizes, disk_info, nodes,
                   mounts, devs, created_partitions, mounted, tree, fstab>>

\* main.rs:152-161
DryRunReturns(dry_run) == dry_run

DryRunCheck ==
    /\ pc = "dry_run_check"
    /\ IF DryRunReturns(args.dry_run)
       THEN pc' = "exit" /\ result' = [status |-> "ok", error |-> ""]
       ELSE \E stdin_ok \in BOOLEAN :
              IF stdin_ok THEN Goto(After("dry_run_check")) ELSE Fail("StdinError")
    /\ UNCHANGED <<args, warnings, checks, steps, calls, sizes, disk_info, table, nodes,
                   mounts, layout, devs, created_partitions, mounted, tree, fstab>>

\* ------------------------------------------------------------------------
\* The pipeline (main.rs:163-234)
ToolOutcomes == {"spawn_failed", "nonzero", "success"}

\* check_filesystem (main.rs:575-588): the error, "" when the run goes on
FsckErrorStrict(outcome) == IF outcome # "success" THEN "FsckNotRun" ELSE ""

FsckError(outcome) == IF outcome = "spawn_failed" THEN "FsckNotRun" ELSE ""

CheckFilesystem ==
    /\ pc = "check_filesystem"
    /\ steps' = Append(steps, "check_filesystem")
    /\ \E o \in ToolOutcomes :
         /\ calls' = IF o = "spawn_failed" THEN calls
                     ELSE Append(calls, Call("e2fsck", disk_info[1].root_partition))
         /\ warnings' = IF o = "nonzero" THEN Append(warnings, "e2fsck") ELSE warnings
         /\ IF FsckError(o) # "" THEN Fail(FsckError(o)) ELSE Goto(After("check_filesystem"))
    /\ UNCHANGED <<args, checks, sizes, disk_info, table, nodes,
                   mounts, layout, devs, created_partitions, mounted, tree, fstab>>

\* shrink_root_filesystem (main.rs:590-607): the size handed to resize2fs, in KiB
ShrinkKiBRoundedUp(new_size) ==
    (DivCeil(DivSectorSize(new_size) * SECTOR_SIZE + new_size.r, 4096)) * 4

ShrinkKiB(new_size) == (DivSectorSize(new_size) \div (4096 \div SECTOR_SIZE)) * 4

ShrinkRootFilesystem ==
    /\ pc = "shrink_root_filesystem"
    /\ steps' = Append(steps, "shrink_root_filesystem")
    /\ \E o \in ToolOutcomes :
         /\ calls' = IF o = "spawn_failed" THEN calls
                     ELSE Append(calls, CallAB("resize2fs", disk_info[1].root_partition,
                                               ShrinkKiB(layout[1].root_size_bytes), 0))
         /\ IF o = "success" THEN Goto(After("shrink_root_filesystem")) ELSE Fail("ShrinkFailed")
    /\ UNCHANGED <<args, warnings, checks, sizes, disk_info, table, nodes,
                   mounts, layout, devs, created_partitions, mounted, tree, fstab>>

\* resize_root_partition (main.rs:609-644): rm 2, mkpart <start>s <new_end>s
ResizeRootPartition ==
    /\ pc = "resize_root_partition"
    /\ steps' = Append(steps, "resize_root_partition")
    /\ LET start == get_partition_start(table, 2)
           new_end_sector == layout[1].root_end
       IN  IF start = NoneOpt
           THEN Fail("PartitionStartNotFound") /\ UNCHANGED <<calls, table>>
           ELSE \E o \in ToolOutcomes :
                  /\ calls' = IF o = "spawn_failed" THEN calls
                              ELSE Append(calls, CallAB("parted_rm_mkpart",
                                          disk_info[1].device, start[1], new_end_sector))
                  /\ IF o = "success"
                     THEN /\ table' = [table EXCEPT ![2] =
                                         [start |-> start[1], end |-> new_end_sector]]
                          /\ Goto(After("resize_root_partition"))
                     ELSE /\ UNCHANGED table
                          /\ Fail("ResizePartitionFailed")
    /\ UNCHANGED <<args, warnings, checks, sizes, disk_info, nodes,
                   mounts, layout, devs, created_partitions, mounted, tree, fstab>>

\* get_next_partition_number (main.rs:646-665)
get_next_partition_number(tbl) == Len(tbl) + 1

\* how far a create function gets: parted print fails (get_next_partition_number),
\* mkpart fails, the device node is missing, the format tool fails, or Ok
CreateOutcomes == {"print_failed", "mkpart_failed", "no_device", "format_failed",
                   "success"}

\* get_partition_device's existence test and the formatting that follows it
\* (main.rs:692-702, 797-802): is the format tool run?
FormatsAlways(outcome) == outcome \notin {"print_failed", "mkpart_failed"}

Formats(outcome) == outcome \in {"format_failed", "success"}

\* create_swap_partition, create_var_partition, create_home_partition
\* (main.rs:667-788): parted mkpart, partprobe, get_partition_device, format.
\* device is the Ok value, NoneOpt with the error otherwise.
create_partition(fs_type, mkfs, start, end, outcome) ==
    LET part_num == get_next_partition_number(table)
        path == PartitionDevicePath(disk_info[1].device, part_num)
        mkpart == CallAB("parted_mkpart", <<fs_type>>, start, end)
        made == outcome \notin {"print_failed", "mkpart_failed"}
    IN  [calls |-> IF outcome = "print_failed" THEN <<>>
                   ELSE IF Formats(outcome) THEN <<mkpart, Call(mkfs, path)>>
                   ELSE <<mkpart>>,
         table |-> IF made THEN Append(table, [start |-> start, end |-> end]) ELSE table,
         nodes |-> IF outcome \in {"format_failed", "success"}
                   THEN nodes \cup {path} ELSE nodes,
         device |-> IF outcome = "success" THEN Some(path) ELSE NoneOpt,
         error |-> CASE outcome = "print_failed" -> "PartedPrintFailed"
                     [] outcome = "mkpart_failed" -> "MkpartFailed"
                     [] outcome = "no_device" -> "DeviceNotReady"
                     [] outcome = "format_failed" -> "FormatFailed"
                     [] OTHER -> ""]

\* main.rs:178-184
SwapPlanned(l) == BytesPositive(l.swap_size_bytes)

CreateSwap ==
    /\ pc = "create_swap"
    /\ IF SwapPlanned(layout[1])
       THEN \E o \in CreateOutcomes :
              LET r == create_partition("linux-swap", "mkswap", layout[1].swap_start,
                                        layout[1].swap_end, o)
              IN  /\ steps' = Append(steps, "create_swap")
                  /\ calls' = calls \o r.calls
                  /\ table' = r.table
                  /\ nodes' = r.nodes
                  /\ devs' = [devs EXCEPT !.swap = r.device]
                  /\ IF r.error # "" THEN Fail(r.error) ELSE Goto(After("create_swap"))
       ELSE /\ Goto(After("create_swap"))
            /\ UNCHANGED <<steps, calls, table, nodes, devs>>
    /\ UNCHANGED <<args, warnings, checks, sizes, disk_info,
                   mounts, layout, created_partitions, mounted, tree, fstab>>

\* main.rs:186-192
VarPlanned(l) == BytesPositive(l.var_size_bytes)

CreateVar ==
    /\ pc = "create_var"
    /\ IF VarPlanned(layout[1])
       THEN \E o \in CreateOutcomes :
              LET r == create_partition("btrfs", "mkfs.btrfs", layout[1].var_start,
                                        layout[1].var_end, o)
              IN  /\ steps' = Append(steps, "create_var")
                  /\ calls' = calls \o r.calls
                  /\ table' = r.table
                  /\ nodes' = r.nodes
                  /\ devs' = [devs EXCEPT !.var = r.device]
                  /\ IF r.error # "" THEN Fail(r.error) ELSE Goto(After("create_var"))
       ELSE /\ Goto(After("create_var"))
            /\ UNCHANGED <<steps, calls, table, nodes, devs>>
    /\ UNCHANGED <<args, warnings, checks, sizes, disk_info,
                   mounts, layout, created_partitions, mounted, tree, fstab>>

\* main.rs:194-203: create_home_partition, then the CreatedPartitions record
CreateHome ==
    /\ pc = "create_home"
    /\ \E o \in CreateOutcomes :
         LET r == create_partition("ext4", "mkfs.ext4", layout[1].home_start,
                                   layout[1].home_end, o)
         IN  /\ steps' = Append(steps, "create_home")
             /\ calls' = calls \o r.calls
             /\ table' = r.table
             /\ nodes' = r.nodes
             /\ devs' = [devs EXCEPT !.home = r.device]
             /\ IF r.error # ""
                THEN Fail(r.error) /\ UNCHANGED created_partitions
                ELSE /\ created_partitions' =
                          Some([root_device |-> disk_info[1].root_partition,
                                swap_device |-> devs.swap,
                                var_device |-> devs.var,
                                home_device |-> r.device[1]])
                     /\ Goto(After("create_home"))
    /\ UNCHANGED <<args, warnings, checks, sizes, disk_info,
                   mounts, layout, mounted, tree, fstab>>

\* create_mount_points (main.rs:807-821): directories that exist are left alone
CreateMountPoints ==
    /\ pc = "create_mount_points"
    /\ steps' = Append(steps, "create_mount_points")
    /\ \E existing \in {{}, {MountPoints[i] : i \in 1..3}},
          mkdir_ok \in BOOLEAN :
         LET missing == SelectSeq(MountPoints, LAMBDA m : m \notin existing)
         IN  IF missing = <<>> \/ mkdir_ok
             THEN /\ calls' = calls \o [i \in 1..Len(missing) |->
                                           Call("create_dir_all", <<missing[i]>>)]
                  /\ nodes' = nodes \cup {<<MountPoints[i]>> : i \in 1..3}
                  /\ Goto(After("create_mount_points"))
             ELSE /\ calls' = Append(calls, Call("create_dir_all", <<missing[1]>>))
                  /\ nodes' = nodes \cup {<<m>> : m \in existing}
                  /\ Fail("CreateDirFailed")
    /\ UNCHANGED <<args, warnings, checks, sizes, disk_info, table,
                   mounts, layout, devs, created_partitions, mounted, tree, fstab>>

\* mount_partitions (main.rs:823-861): the mounts attempted, in order
MountPlan(partitions) ==
    <<[dev |-> partitions.root_device, mp |-> "/mnt/root"]>>
    \o (IF IsSome(partitions.var_device)
        THEN <<[dev |-> partitions.var_device[1], mp |-> "/mnt/var"]>> ELSE <<>>)
    \o <<[dev |-> partitions.home_device, mp |-> "/mnt/home"]>>

\* fail_at = 0: every mount succeeds; otherwise the fail_at-th mount fails
MountPartitions ==
    /\ pc = "mount_partitions"
    /\ steps' = Append(steps, "mount_partitions")
    /\ LET plan == MountPlan(created_partitions[1])
       IN  \E fail_at \in 0..Len(plan) :
             LET tried == IF fail_at = 0 THEN Len(plan) ELSE fail_at
                 done == IF fail_at = 0 THEN Len(plan) ELSE fail_at - 1
             IN  /\ calls' = calls \o [i \in 1..tried |-> Call("mount", <<plan[i].mp>>)]
                 /\ mounted' = mounted \o [i \in 1..done |-> plan[i].mp]
                 /\ IF fail_at = 0 THEN Goto(After("mount_partitions")) ELSE Fail("MountFailed")
    /\ UNCHANGED <<args, warnings, checks, sizes, disk_info, table, nodes,
                   mounts, layout, devs, created_partitions, tree, fstab>>

\* migrate_var_data, migrate_home_data (main.rs:863-937).  old: the entries of
\* the subtree under /mnt/root (NoneOpt: no such directory).  rm is run
\* without a shell, so its argument "<dir>/*" names the entry called "*".
MigrateOutcomes == {"rsync_failed", "rm_failed", "success"}
OldTrees == {NoneOpt, Some({"data"})}

DeletesAlways(old, outcome) == IsSome(old)

Deletes(old, outcome) == IsSome(old) /\ outcome # "rsync_failed"

migrate_data(name, old, new, outcome) ==
    LET copies == IsSome(old)
        copied == copies /\ outcome # "rsync_failed"
        deletes == Deletes(old, outcome)
        deleted == deletes /\ outcome = "success"
    IN  [calls |-> (IF copies THEN <<Call("rsync", <<name>>)>> ELSE <<>>)
                   \o (IF deletes THEN <<Call("rm", <<name>>)>> ELSE <<>>),
         old |-> IF deleted THEN Some(old[1] \ {"*"}) ELSE old,
         new |-> IF copied THEN new \cup old[1] ELSE new,
         error |-> IF ~copies THEN ""
                   ELSE CASE outcome = "rsync_failed" -> "CopyFailed"
                          [] outcome = "rm_failed" -> "DeleteFailed"
                          [] OTHER -> ""]

\* main.rs:216-219
VarMigrated(var_device) == IsSome(var_device)

MigrateVar ==
    /\ pc = "migrate_var"
    /\ IF VarMigrated(devs.var)
       THEN \E old \in OldTrees, o \in MigrateOutcomes :
              LET r == migrate_data("var", old, tree.new_var, o)
              IN  /\ steps' = Append(steps, "migrate_var")
                  /\ calls' = calls \o r.calls
                  /\ tree' = [tree EXCEPT !.old_var = r.old, !.new_var = r.new]
                  /\ IF r.error # "" THEN Fail(r.error) ELSE Goto(After("migrate_var"))
       ELSE /\ Goto(After("migrate_var"))
            /\ UNCHANGED <<steps, calls, tree>>
    /\ UNCHANGED <<args, warnings, checks, sizes, disk_info, table, nodes,
                   mounts, layout, devs, created_partitions, mounted, fstab>>

\* main.rs:221-222
MigrateHome ==
    /\ pc = "migrate_home"
    /\ \E old \in OldTrees, o \in MigrateOutcomes :
         LET r == migrate_data("home", old, tree.new_home, o)
         IN  /\ steps' = Append(steps, "migrate_home")
             /\ calls' = calls \o r.calls
             /\ tree' = [tree EXCEPT !.old_home = r.old, !.new_home = r.new]
             /\ IF r.error # "" THEN Fail(r.error) ELSE Goto(After("migrate_home"))
    /\ UNCHANGED <<args, warnings, checks, sizes, disk_info, table, nodes,
                   mounts, layout, devs, created_partitions, mounted, fstab>>

\* update_fstab (main.rs:957-997).  The identifier blkid prints for a device
\* is written Uuid(device).
Uuid(device) == <<"uuid-of">> \o device
FstabDevices(partitions) ==
    (IF IsSome(partitions.swap_device) THEN <<partitions.swap_device[1]>> ELSE <<>>)
    \o (IF IsSome(partitions.var_device) THEN <<partitions.var_device[1]>> ELSE <<>>)
    \o <<partitions.home_device>>
FstabEntriesAlways(partitions) ==
    <<"UUID=", Uuid(UnwrapOr(partitions.swap_device, <<>>)), "  none  swap  sw  0  0", "\n",
      "UUID=", Uuid(UnwrapOr(partitions.var_device, <<>>)), "  /var  btrfs  defaults  0  2",
      "\n",
      "UUID=", Uuid(partitions.home_device), "  /home  ext4  defaults  0  2", "\n">>

FstabEntries(partitions) ==
    (IF IsSome(partitions.swap_device)
     THEN <<"UUID=", Uuid(partitions.swap_device[1]), "  none  swap  sw  0  0", "\n">>
     ELSE <<>>)
    \o (IF IsSome(partitions.var_device)
        THEN <<"UUID=", Uuid(partitions.var_device[1]), "  /var  btrfs  defaults  0  2",
               "\n">>
        ELSE <<>>)
    \o <<"UUID=", Uuid(partitions.home_device), "  /home  ext4  defaults  0  2", "\n">>
NewFstab(content, partitions) ==
    content \o <<"\n", "# Added by rpi-fs-shrink", "\n">> \o FstabEntries(partitions)

\* the file when get_uuid fails (tool error or empty identifier) for the k-th
\* of FstabDevices: the `?` returns before std::fs::write, and the entries
\* gathered so far in new_entries are dropped with it
FstabOnLookupFailurePartial(content, partitions, k) ==
    content \o <<"\n", "# Added by rpi-fs-shrink", "\n">>
            \o SubSeq(FstabEntries(partitions), 1, 4 * (k - 1))

FstabOnLookupFailure(content, partitions, k) == content

\* outcome "uuid_failed": get_uuid fails for one of FstabDevices
FstabOutcomes == {"read_failed", "uuid_failed", "write_failed", "success"}

UpdateFstab ==
    /\ pc = "update_fstab"
    /\ steps' = Append(steps, "update_fstab")
    /\ LET p == created_partitions[1]
       IN  \E o \in FstabOutcomes :
             CASE o = "read_failed" ->
                    Fail("FstabReadFailed") /\ UNCHANGED <<calls, fstab>>
               [] o = "uuid_failed" ->
                    \E k \in 1..Len(FstabDevices(p)) :
                        /\ fstab' = FstabOnLookupFailure(fstab, p, k)
                        /\ Fail("UuidLookupFailed")
                        /\ UNCHANGED calls
               [] o = "write_failed" ->
                    /\ calls' = Append(calls, Call("fstab_write", <<>>))
                    /\ fstab' \in {fstab, <<>>}
                    /\ Fail("FstabWriteFailed")
               [] OTHER ->
                    /\ calls' = Append(calls, Call("fstab_write", <<>>))
                    /\ fstab' = NewFstab(fstab, p)
                    /\ Goto(After("update_fstab"))
    /\ UNCHANGED <<args, warnings, checks, sizes, disk_info, table, nodes,
                   mounts, layout, devs, created_partitions, mounted, tree>>

\* unmount_all (main.rs:999-1024): the mount points, in the order they are tried
UnmountOrder == <<"/mnt/var", "/mnt/home", "/mnt/root">>

\* umount of a mount point succeeds only if it is mounted and not in `stuck`;
\* every other outcome of umount prints a warning and the loop goes on
UnmountAll ==
    /\ pc = "unmount_all"
    /\ steps' = Append(steps, "unmount_all")
    /\ \E stuck \in SUBSET {UnmountOrder[i] : i \in 1..3} :
         LET present == SelectSeq(UnmountOrder, LAMBDA m : <<m>> \in nodes)
             is_mounted(m) == \E i \in 1..Len(mounted) : mounted[i] = m
         IN  /\ calls' = calls \o [i \in 1..Len(present) |-> Call("umount", <<present[i]>>)]
             /\ mounted' = SelectSeq(mounted, LAMBDA m :
                               m \in stuck \/ ~(\E i \in 1..Len(present) : present[i] = m))
             /\ warnings' = warnings \o SelectSeq(present, LAMBDA m :
                                                      m \in stuck \/ ~is_mounted(m))
    /\ pc' = After("unmount_all")
    /\ result' = [status |-> "ok", error |-> ""]
    /\ UNCHANGED <<args, checks, sizes, disk_info, table, nodes,
                   mounts, layout, devs, created_partitions, tree, fstab>>

\* ------------------------------------------------------------------------
Next ==
    \/ Start
    \/ CheckDependencies
    \/ ParseSizes
    \/ GetDiskInfo
    \/ ActiveDiskCheck
    \/ SdCardCheck
    \/ CalculateLayout
    \/ DryRunCheck
    \/ CheckFilesystem
    \/ ShrinkRootFilesystem
    \/ ResizeRootPartition
    \/ CreateSwap
    \/ CreateVar
    \/ CreateHome
    \/ CreateMountPoints
    \/ MountPartitions
    \/ MigrateVar
    \/ MigrateHome
    \/ UpdateFstab
    \/ UnmountAll

Spec == Init /\ [][Next]_vars

\* ------------------------------------------------------------------------
\* The planner alone, as a function of any sizes and any disk: the program is
\* placed at the call of calculate_partition_layout with inputs that need not
\* have passed main's checks.
PlanSizes == {Bytes(s, r) : s \in {0, 1, ALIGNMENT, 3 * ALIGNMENT + 1}, r \in {0, 1}}
PlanOptSizes == {NoneOpt} \cup {Some(Bytes(s, r)) :
                                  s \in {0, ALIGNMENT - 1, 2 * ALIGNMENT}, r \in {0, 1}}
PlanDisks == {Bytes(0, 0)} \cup
             {Bytes((8 + 4 * k) * ALIGNMENT + d, d) : k \in 0..MaxPlanAlign, d \in {0, 1}}

InitPlanner ==
    /\ args = [device |-> DevNvme, root_size |-> <<>>, swap_size |-> NoneOpt,
               var_size |-> NoneOpt, dry_run |-> TRUE, allow_active_disk |-> FALSE]
    /\ pc = "calculate_layout"
    /\ sizes \in [root : PlanSizes, swap : PlanOptSizes, var : PlanOptSizes]
    /\ \E b \in PlanDisks :
         disk_info = Some([device |-> DevNvme, size_bytes |-> b,
                           size_sectors |-> DivSectorSize(b), is_sd_card |-> FALSE,
                           root_partition |-> RootPartitionPath(DevNvme, FALSE)])
    /\ table = <<>>
    /\ InitCommon

NextPlanner == CalculateLayout

SpecPlanner == InitPlanner /\ [][NextPlanner]_vars

\* ------------------------------------------------------------------------
\* The planner followed by the first three steps of the pipeline, for any
\* root size and no swap or var: the program is placed at the call of
\* calculate_partition_layout of a run that is no dry run.
InitShrink ==
    /\ args = [device |-> DevNvme, root_size |-> <<>>, swap_size |-> NoneOpt,
               var_size |-> NoneOpt, dry_run |-> FALSE, allow_active_disk |-> FALSE]
    /\ pc = "calculate_layout"
    /\ sizes \in [root : PlanSizes, swap : {NoneOpt}, var : {NoneOpt}]
    /\ \E b \in PlanDisks :
         disk_info = Some([device |-> DevNvme, size_bytes |-> b,
                           size_sectors |-> DivSectorSize(b), is_sd_card |-> FALSE,
                           root_partition |-> RootPartitionPath(DevNvme, FALSE)])
    /\ table = <<>>
    /\ InitCommon

NextShrink ==
    \/ CalculateLayout
    \/ DryRunCheck
    \/ CheckFilesystem
    \/ ShrinkRootFilesystem
    \/ ResizeRootPartition

SpecShrink == InitShrink /\ [][NextShrink]_vars

\* ------------------------------------------------------------------------
\* parse_size alone, on any size string: the program is placed at the size
\* parsing of main with a valid root size and the string as --swap-size.
ParseNumbers ==
    {<<"0">>, <<"1">>, <<"5", "1", "2">>, <<"1", "0", "2", "3">>,
     <<"1", "6", "7", "7", "7", "2", "1", "6">>,
     <<"9", "0", "0", "7", "1", "9", "9", "2", "5", "4", "7", "4", "0", "9", "9", "2">>,
     <<"9", "0", "0", "7", "1", "9", "9", "2", "5", "4", "7", "4", "0", "9", "9", "3">>}
ParseUnits == {<<>>, <<"K">>, <<"k">>, <<"M">>, <<"m">>, <<"G">>, <<"g">>, <<"T">>, <<"t">>}
ParseSuffixes == {<<>>, <<"B">>, <<"b">>}
MalformedSizes ==
    {<<>>, <<"G">>, <<"8", "X">>, <<"8", "x", "b">>, <<"X", "8">>, <<"M", "B">>,
     <<"8", "G", "G">>, <<"-", "1">>, <<".", "5", "G">>}
ParseArgs ==
    {n \o u \o b : n \in ParseNumbers, u \in ParseUnits, b \in ParseSuffixes}
    \cup MalformedSizes \cup {<<" ", "2", " ", "M", "B", " ">>, <<"1", ".", "5", "G">>}

InitParser ==
    /\ args \in [device : {DevNvme}, root_size : {<<"8", "G">>},
                 swap_size : {Some(a) : a \in ParseArgs}, var_size : {NoneOpt},
                 dry_run : {TRUE}, allow_active_disk : {FALSE}]
    /\ pc = "parse_sizes"
    /\ sizes = [root |-> ZeroBytes, swap |-> NoneOpt, var |-> NoneOpt]
    /\ disk_info = NoneOpt
    /\ table = <<>>
    /\ InitCommon

NextParser == ParseSizes

SpecParser == InitParser /\ [][NextParser]_vars

\* ------------------------------------------------------------------------
\* Properties

\* the next multiple of the alignment boundary at or after x
RoundUpToBoundary(x) == x + ((ALIGNMENT - (x % ALIGNMENT)) % ALIGNMENT)
\* comparison of two byte counts as numbers (no wrap-around reading)
NumBytesLt(a, b) ==
    \/ a.t < b.t
    \/ a.t = b.t /\ (a.s < b.s \/ (a.s = b.s /\ a.r < b.r))
\* the partitions a layout plans, in the order root, swap, var, home
PlannedRanges(l) ==
    <<[start |-> l.root_start, end |-> l.root_end]>>
    \o (IF BytesPositive(l.swap_size_bytes)
        THEN <<[start |-> l.swap_start, end |-> l.swap_end]>> ELSE <<>>)
    \o (IF BytesPositive(l.var_size_bytes)
        THEN <<[start |-> l.var_start, end |-> l.var_end]>> ELSE <<>>)
    \o <<[start |-> l.home_start, end |-> l.home_end]>>
RangesDisjoint(a, b) ==
    a.end < a.start \/ b.end < b.start \/ a.end < b.start \/ b.end < a.start

\* C1: a layout that calculate_partition_layout returns has a home partition,
\* sectors home_start..home_end, of at least size_bytes / 2 bytes; otherwise
\* the function returns an error.
C1_HomeAtLeastHalfOrError ==
    layout # NoneOpt =>
        LET l == layout[1]
        IN  /\ l.home_size_bytes = Bytes(l.home_end - l.home_start + 1, 0)
            /\ ~NumBytesLt(Bytes(l.home_end - l.home_start + 1, 0),
                           HalfBytes(disk_info[1].size_bytes))

\* C2: in a returned layout the planned partitions are pairwise disjoint, each
\* starts at the aligned sector after the previous one's end, and the start
\* sectors strictly increase in the order root, swap, var, home.
C2_RangesDisjointContiguousIncreasing ==
    layout # NoneOpt =>
        LET rs == PlannedRanges(layout[1])
        IN  /\ \A i \in 1..Len(rs), j \in 1..Len(rs) :
                   i < j => RangesDisjoint(rs[i], rs[j])
            /\ \A i \in 1..(Len(rs) - 1) :
                   /\ rs[i + 1].start = RoundUpToBoundary(rs[i].end + 1)
                   /\ rs[i].start < rs[i + 1].start

\* C3: in a returned layout swap_start, var_start and home_start are multiples
\* of 2048, and the end of root, swap and var is the start plus the requested
\* sectors, rounded up to the next multiple of 2048, minus one.
C3_StartsAlignedEndsRounded ==
    layout # NoneOpt =>
        LET l == layout[1]
        IN  /\ l.swap_start % 2048 = 0
            /\ l.var_start % 2048 = 0
            /\ l.home_start % 2048 = 0
            /\ l.root_end = RoundUpToBoundary(l.root_start + l.root_size_bytes.s) - 1
            /\ BytesPositive(l.swap_size_bytes) =>
                 l.swap_end = RoundUpToBoundary(l.swap_start + l.swap_size_bytes.s) - 1
            /\ BytesPositive(l.var_size_bytes) =>
                 l.var_end = RoundUpToBoundary(l.var_start + l.var_size_bytes.s) - 1

\* a layout with swap and var, planned from a root start that is not aligned
C3_Witness ==
    /\ layout # NoneOpt
    /\ BytesPositive(layout[1].swap_size_bytes)
    /\ BytesPositive(layout[1].var_size_bytes)
    /\ layout[1].swap_size_bytes.s > 0
    /\ layout[1].root_start % 2048 # 0

\* ------------------------------------------------------------------------
\* the calls that change the disk, its filesystems or the mounted root
DestructiveTools ==
    {"e2fsck", "resize2fs", "parted_rm_mkpart", "parted_mkpart", "mkswap",
     "mkfs.btrfs", "mkfs.ext4", "mount", "rsync", "rm", "fstab_write"}
HasCall(tools) == \E i \in 1..Len(calls) : calls[i].tool \in tools
LastCall == calls[Len(calls)]
LastStep == steps[Len(steps)]
IsPrefix(a, b) == Len(a) <= Len(b) /\ \A i \in 1..Len(a) : a[i] = b[i]
\* the root filesystem is mounted from the device itself or from one of its
\* partitions, whichever way the partition is named
RootIsOnDevice(device, mount_lines) ==
    \E i \in 1..Len(mount_lines) :
        /\ mount_lines[i].mp = "/"
        /\ \/ mount_lines[i].dev = device
           \/ \E n \in 1..9 : mount_lines[i].dev \in {device \o <<NumPiece(n)>>,
                                                      device \o <<"p", NumPiece(n)>>}
ActiveRootWithoutOverride ==
    /\ mounts # NoneOpt
    /\ RootIsOnDevice(NormalizeDevice(args.device), mounts[1])
    /\ ~args.allow_active_disk

\* C4: the old subtree is deleted only right after its copy succeeded; when
\* a copy fails the deletion is not invoked, the run ends in error in that
\* migration step, and the old subtree is still there.
C4_DeleteOnlyAfterCopy ==
    /\ \A i \in 1..Len(calls) :
           calls[i].tool = "rm" => i > 1 /\ calls[i - 1] = Call("rsync", calls[i].target)
    /\ result.error = "CopyFailed" =>
           /\ result.status = "err" /\ pc = "exit"
           /\ LastCall.tool = "rsync"
           /\ ~(\E i \in 1..Len(calls) : calls[i] = Call("rm", LastCall.target))
           /\ LastStep = (IF LastCall.target = <<"var">> THEN "migrate_var"
                          ELSE "migrate_home")
           /\ IF LastStep = "migrate_var" THEN tree.old_var = Some({"data"})
              ELSE tree.old_home = Some({"data"})

\* the copy of /var failed
C4_Witness ==
    /\ result.error = "CopyFailed"
    /\ LastStep = "migrate_var"
    /\ LastCall = Call("rsync", <<"var">>)

\* C5: when the device node of a created partition is missing after the
\* wait, the run ends in error, the format tool has not been run for it and no
\* CreatedPartitions record exists; a swap, var or home device is recorded only
\* when its format tool was run on it and did not fail.
C5_RecordedOnlyAfterFormat ==
    /\ result.error = "DeviceNotReady" =>
           /\ result.status = "err" /\ pc = "exit"
           /\ created_partitions = NoneOpt
           /\ LastCall.tool = "parted_mkpart"
           /\ LET lost == PartitionDevicePath(disk_info[1].device, Len(table))
              IN  /\ lost \notin nodes
                  /\ ~(\E i \in 1..Len(calls) : calls[i].target = lost)
                  /\ Some(lost) \notin {devs.swap, devs.var, devs.home}
    /\ result.error = "FormatFailed" =>
           /\ created_partitions = NoneOpt
           /\ Some(LastCall.target) \notin {devs.swap, devs.var, devs.home}
    /\ devs.swap # NoneOpt =>
           \E i \in 1..Len(calls) : calls[i] = Call("mkswap", devs.swap[1])
    /\ devs.var # NoneOpt =>
           \E i \in 1..Len(calls) : calls[i] = Call("mkfs.btrfs", devs.var[1])
    /\ devs.home # NoneOpt =>
           \E i \in 1..Len(calls) : calls[i] = Call("mkfs.ext4", devs.home[1])
    /\ created_partitions # NoneOpt =>
           /\ created_partitions[1].swap_device = devs.swap
           /\ created_partitions[1].var_device = devs.var
           /\ Some(created_partitions[1].home_device) = devs.home

\* swap was created and formatted, then the /var device never appeared
C5_Witness ==
    /\ result.error = "DeviceNotReady"
    /\ LastStep = "create_var"
    /\ devs.swap # NoneOpt

\* C6: with the root filesystem mounted from the target device and no
\* allow_active_disk, the run aborts and no destructive call is made; a run
\* without allow_active_disk makes a destructive call only after the mount
\* table was read and showed the root elsewhere.
C6_ActiveRootNeverTouched ==
    /\ ActiveRootWithoutOverride =>
           /\ result = [status |-> "err", error |-> "UnsafeTarget"]
           /\ pc = "exit"
           /\ steps = <<>>
           /\ ~HasCall(DestructiveTools)
    /\ (steps # <<>> \/ HasCall(DestructiveTools)) /\ ~args.allow_active_disk =>
           /\ mounts # NoneOpt
           /\ ~RootIsOnDevice(NormalizeDevice(args.device), mounts[1])

\* the root is mounted from partition 2 of the target device
C6_Witness ==
    /\ ActiveRootWithoutOverride
    /\ result.error = "UnsafeTarget"
    /\ mounts[1][1].dev = PartitionDevicePath(NormalizeDevice(args.device), 2)

\* C7 as stated: the unsafe-target abort happens before the dependency check
\* and the size checks have executed.
C7_AbortBeforeDependencyAndSizeChecks ==
    result.error = "UnsafeTarget" =>
        /\ ~(\E i \in 1..Len(checks) : checks[i] \in {"check_dependencies", "parse_sizes"})
        /\ ~HasCall({"install_packages"})

\* C7, amended: with the device the active root disk and no override, the run
\* aborts with the unsafe-target error after the dependency check, the size
\* parsing and validation and the disk inspection have completed, and before
\* the SD-card check, the layout computation and every pipeline step.
C7_AbortAfterChecksBeforePolicy ==
    ActiveRootWithoutOverride =>
        /\ result = [status |-> "err", error |-> "UnsafeTarget"]
        /\ checks = <<"check_dependencies", "parse_sizes", "get_disk_info",
                      "active_disk_check">>
        /\ ~NumBytesLt(sizes.root, GiB(8)) /\ ~NumBytesLt(GiB(64), sizes.root)
        /\ disk_info # NoneOpt
        /\ layout = NoneOpt
        /\ steps = <<>>

\* packages were installed, then the run aborted on the active root disk
C7_Witness ==
    /\ ActiveRootWithoutOverride
    /\ result.error = "UnsafeTarget"
    /\ HasCall({"install_packages"})

\* C8: on an SD card with a swap or var size given, no layout is computed and
\* no destructive call is made, and the run that reaches the SD-card check
\* ends there with the policy error.
C8_SdCardBlocksSwapAndVar ==
    (IsSdCard(NormalizeDevice(args.device))
     /\ (IsSome(args.swap_size) \/ IsSome(args.var_size))) =>
        /\ layout = NoneOpt
        /\ table = <<>>
        /\ steps = <<>>
        /\ ~HasCall(DestructiveTools)
        /\ ~(\E i \in 1..Len(checks) : checks[i] = "calculate_layout")
        /\ (\E i \in 1..Len(checks) : checks[i] = "sd_card_check") =>
               /\ pc = "exit"
               /\ result.status = "err"
               /\ result.error = (IF IsSome(args.swap_size) THEN "SwapOnSdCard"
                                  ELSE "VarOnSdCard")

\* an SD card, a swap size: the run ended with the policy error
C8_Witness ==
    /\ IsSdCard(NormalizeDevice(args.device))
    /\ result.error = "SwapOnSdCard"
    /\ checks[Len(checks)] = "sd_card_check"

\* C9: a dry run makes no state-changing call at all and never enters the
\* pipeline; when it succeeds it has planned the layout.
C9_DryRunChangesNothing ==
    args.dry_run =>
        /\ calls = <<>>
        /\ steps = <<>>
        /\ mounted = <<>>
        /\ fstab = OldFstab
        /\ tree.new_var = {} /\ tree.new_home = {}
        /\ pc \in {"start", "check_dependencies", "parse_sizes", "get_disk_info",
                   "active_disk_check", "sd_card_check", "calculate_layout",
                   "dry_run_check", "exit"}
        /\ result.status = "ok" => layout # NoneOpt /\ pc = "exit"

\* a dry run that ended successfully after planning
C9_Witness ==
    /\ args.dry_run
    /\ result.status = "ok"
    /\ layout # NoneOpt
    /\ Len(checks) = 6

\* C10: the steps started so far are an initial part of the fixed order, with
\* swap and var created iff planned with a size > 0 and /var migrated iff a var
\* partition was created; a successful run that is no dry run has started all
\* of them, each once.
ExpectedSteps ==
    IF layout = NoneOpt THEN <<>>
    ELSE <<"check_filesystem", "shrink_root_filesystem", "resize_root_partition">>
         \o (IF NumBytesLt(ZeroBytes, layout[1].swap_size_bytes)
             THEN <<"create_swap">> ELSE <<>>)
         \o (IF NumBytesLt(ZeroBytes, layout[1].var_size_bytes)
             THEN <<"create_var">> ELSE <<>>)
         \o <<"create_home", "create_mount_points", "mount_partitions">>
         \o (IF devs.var # NoneOpt THEN <<"migrate_var">> ELSE <<>>)
         \o <<"migrate_home", "update_fstab", "unmount_all">>
FatalErrors ==
    {"ShrinkFailed", "PartitionStartNotFound", "ResizePartitionFailed",
     "PartedPrintFailed", "MkpartFailed", "DeviceNotReady", "FormatFailed",
     "CreateDirFailed", "MountFailed", "CopyFailed", "DeleteFailed",
     "FstabReadFailed", "UuidLookupFailed", "FstabWriteFailed"}
StepsOfError(e) ==
    CASE e = "FsckNotRun" -> {"check_filesystem"}
      [] e = "ShrinkFailed" -> {"shrink_root_filesystem"}
      [] e \in {"PartitionStartNotFound", "ResizePartitionFailed"} ->
             {"resize_root_partition"}
      [] e \in {"PartedPrintFailed", "MkpartFailed", "DeviceNotReady", "FormatFailed"} ->
             {"create_swap", "create_var", "create_home"}
      [] e = "CreateDirFailed" -> {"create_mount_points"}
      [] e = "MountFailed" -> {"mount_partitions"}
      [] e \in {"CopyFailed", "DeleteFailed"} -> {"migrate_var", "migrate_home"}
      [] e \in {"FstabReadFailed", "UuidLookupFailed", "FstabWriteFailed"} ->
             {"update_fstab"}
      [] OTHER -> {}
\* the calls of one tool, in order
CallsOf(tool) == SelectSeq(calls, LAMBDA c : c.tool = tool)
\* the calls of one tool that did what they were asked: all of them, but for
\* the last one when the run ended with that tool's error
DoneCalls(tool, e) ==
    LET cs == CallsOf(tool)
    IN  IF result.error = e /\ cs # <<>> /\ LastCall.tool = tool
        THEN SubSeq(cs, 1, Len(cs) - 1) ELSE cs

\* C11: when a fatal step of the pipeline fails, the run is over in that
\* step with the error; the step is the last one started, no unmount and no
\* partition removal is ever issued, every partition made so far is still in
\* the table, every mount made so far is still mounted and the data copied
\* so far is still in the new location.
C11_FatalFailureNoRollback ==
    result.status = "err" =>
        /\ pc = "exit"
        /\ steps # <<>> =>
               /\ LastStep \in StepsOfError(result.error)
               /\ ~HasCall({"umount", "parted_rm"})
               /\ Len(CallsOf("parted_rm_mkpart")) <= 1
               /\ LET made == DoneCalls("parted_mkpart", "MkpartFailed")
                  IN  \A i \in 1..Len(made) :
                          \E k \in 1..Len(table) :
                              table[k] = [start |-> made[i].a, end |-> made[i].b]
               /\ LET mnt == DoneCalls("mount", "MountFailed")
                  IN  mounted = [i \in 1..Len(mnt) |-> mnt[i].target[1]]
               /\ (\E i \in 1..Len(calls) : calls[i] = Call("rsync", <<"var">>)) =>
                      (result.error = "CopyFailed" /\ LastStep = "migrate_var")
                      \/ "data" \in tree.new_var
               /\ result.error = "DeleteFailed" =>
                      IF LastStep = "migrate_var"
                      THEN "data" \in tree.new_var /\ tree.old_var = Some({"data"})
                      ELSE "data" \in tree.new_home /\ tree.old_home = Some({"data"})
        /\ result.error \in FatalErrors \ {"PartitionStartNotFound"} => steps # <<>>

\* swap, var and home were created, root and /var were mounted, then the
\* mount of /home failed
C11_Witness ==
    /\ result = [status |-> "err", error |-> "MountFailed"]
    /\ mounted = <<"/mnt/root", "/mnt/var">>
    /\ devs.swap # NoneOpt
    /\ Len(table) >= 4

\* ------------------------------------------------------------------------
Reverse(q) == [i \in 1..Len(q) |-> q[Len(q) + 1 - i]]
\* the mount points handed to a tool, in the order of its calls
TargetsOf(tool) == LET cs == CallsOf(tool) IN [i \in 1..Len(cs) |-> cs[i].target[1]]

\* C12: the mount step mounts root, then var (if created), then home, and the
\* unmount step unmounts what was mounted in the exact reverse of that order:
\* home, then var, then root.
C12_UnmountReverseOfMount ==
    HasCall({"umount"}) =>
        LET mnt == TargetsOf("mount")
            umnt == SelectSeq(TargetsOf("umount"),
                              LAMBDA m : \E i \in 1..Len(mnt) : mnt[i] = m)
        IN  /\ mnt = [i \in 1..Len(MountPlan(created_partitions[1])) |->
                         MountPlan(created_partitions[1])[i].mp]
            /\ umnt = Reverse(mnt)

\* ------------------------------------------------------------------------
Warned(w) == \E i \in 1..Len(warnings) : warnings[i] = w

\* C13: a non-zero exit of the filesystem check does not end the run: the run
\* goes on to the shrink step; the unmount step tries every mount point
\* whatever the outcome of the other unmounts, and ends the run with success.
C13_NonFatalConditionsContinue ==
    /\ Warned("e2fsck") =>
           /\ result.error # "FsckNotRun"
           /\ \/ pc = "shrink_root_filesystem" /\ result = Running
              \/ Len(steps) >= 2 /\ steps[2] = "shrink_root_filesystem"
    /\ (steps # <<>> /\ LastStep = "unmount_all") =>
           /\ TargetsOf("umount") = UnmountOrder
           /\ result = [status |-> "ok", error |-> ""]
           /\ pc = "exit"
    /\ (\E i \in 1..3 : Warned(UnmountOrder[i])) => result.status = "ok"

\* the filesystem check exited non-zero, the first unmount failed, the two
\* that follow it were made, and the run ended with success
C13_Witness ==
    /\ Warned("e2fsck")
    /\ Warned("/mnt/var")
    /\ mounted = <<"/mnt/var">>
    /\ result.status = "ok"

\* ------------------------------------------------------------------------
\* the fstab line of the device that a format tool was run on, none if the
\* tool was never run
LineFor(mkfs, rest) ==
    LET cs == CallsOf(mkfs)
    IN  IF cs = <<>> THEN <<>>
        ELSE <<"UUID=", <<"uuid-of">> \o cs[Len(cs)].target, rest, "\n">>

\* C14: once update_fstab has succeeded the file is its old content, then
\* the marker comment, then one line for swap iff a swap partition was made,
\* one for /var iff a var partition was made, and one for /home, in that
\* order; before that the file is as it was.
C14_FstabContent ==
    /\ ~HasCall({"fstab_write"}) => fstab = OldFstab
    /\ (HasCall({"fstab_write"}) /\ result.error # "FstabWriteFailed") =>
           fstab = OldFstab
                   \o <<"\n", "# Added by rpi-fs-shrink", "\n">>
                   \o LineFor("mkswap", "  none  swap  sw  0  0")
                   \o LineFor("mkfs.btrfs", "  /var  btrfs  defaults  0  2")
                   \o LineFor("mkfs.ext4", "  /home  ext4  defaults  0  2")

\* fstab was written for a run that made a swap partition and no var partition
C14_Witness ==
    /\ HasCall({"fstab_write"})
    /\ result.error # "FstabWriteFailed"
    /\ HasCall({"mkswap"})
    /\ ~HasCall({"mkfs.btrfs"})
    /\ Len(fstab) = Len(OldFstab) + 11

\* ------------------------------------------------------------------------
\* the root sizes of the command lines, in bytes: s sectors of 512 and r more
RootSizeValues ==
    {[arg |-> <<"8", "G">>, s |-> 16777216, r |-> 0],
     [arg |-> <<"1", "6", "g", "b">>, s |-> 33554432, r |-> 0],
     [arg |-> <<"7", "G">>, s |-> 14680064, r |-> 0],
     [arg |-> <<"8", "5", "8", "9", "9", "3", "4", "5", "9", "1">>,
      s |-> 16777215, r |-> 511],
     [arg |-> <<"8", "5", "8", "9", "9", "3", "4", "5", "9", "2">>,
      s |-> 16777216, r |-> 0],
     [arg |-> <<"6", "8", "7", "1", "9", "4", "7", "6", "7", "3", "6">>,
      s |-> 134217728, r |-> 0],
     [arg |-> <<"6", "8", "7", "1", "9", "4", "7", "6", "7", "3", "7">>,
      s |-> 134217728, r |-> 1],
     [arg |-> <<"6", "4", "G">>, s |-> 134217728, r |-> 0],
     [arg |-> <<"6", "5", "G">>, s |-> 136314880, r |-> 0]}
\* 8 * 1024^3 <= s * 512 + r <= 64 * 1024^3
InPolicyRange(s, r) ==
    /\ s >= 16777216
    /\ s < 134217728 \/ (s = 134217728 /\ r = 0)
Checked(c) == \E i \in 1..Len(checks) : checks[i] = c

\* C15: a root size is accepted by validate_root_size iff it is at least
\* 8 * 1024^3 and at most 64 * 1024^3 bytes, both ends accepted; every other
\* size ends the run with the policy error, and the planner is only ever
\* called with a root size inside the range.
C15_RootSizeWithinPolicyRange ==
    /\ \A v \in RootSizeValues :
           (args.root_size = v.arg /\ Checked("parse_sizes")) =>
               IF InPolicyRange(v.s, v.r)
               THEN /\ result.error \notin {"RootSizePolicy", "ParseError"}
                    /\ sizes.root = [t |-> 0, s |-> v.s, r |-> v.r]
               ELSE /\ result = [status |-> "err", error |-> "RootSizePolicy"]
                    /\ pc = "exit"
                    /\ ~Checked("get_disk_info")
    /\ Checked("calculate_layout") =>
           /\ sizes.root.t = 0
           /\ InPolicyRange(sizes.root.s, sizes.root.r)
    /\ layout # NoneOpt => layout[1].root_size_bytes = sizes.root

\* the planner was called with a root size of exactly 64 * 1024^3 bytes
C15_Witness ==
    /\ args.root_size = <<"6", "8", "7", "1", "9", "4", "7", "6", "7", "3", "6">>
    /\ Checked("calculate_layout")
    /\ sizes.root = [t |-> 0, s |-> 134217728, r |-> 0]

\* ------------------------------------------------------------------------
\* C16: the root partition is recreated from the start sector the planner
\* read and recorded as root_start, to the end sector root_end of the layout;
\* the start sector of partition 2 in the table is that same sector before
\* and after the step.
C16_ResizeKeepsRootStart ==
    layout # NoneOpt =>
        /\ table[2].start = layout[1].root_start
        /\ \A i \in 1..Len(calls) :
               calls[i].tool = "parted_rm_mkpart" =>
                   /\ calls[i].a = layout[1].root_start
                   /\ calls[i].b = layout[1].root_end
                   /\ calls[i].target = disk_info[1].device
        /\ (HasCall({"parted_rm_mkpart"}) /\ result.error # "ResizePartitionFailed") =>
               table[2] = [start |-> layout[1].root_start, end |-> layout[1].root_end]
        /\ (~HasCall({"parted_rm_mkpart"}) \/ result.error = "ResizePartitionFailed") =>
               table[2].end = disk_info[1].size_sectors - 1

\* partition 2, starting at the unaligned sector 8193, was recreated
C16_Witness ==
    /\ layout # NoneOpt
    /\ HasCall({"parted_rm_mkpart"})
    /\ result.error # "ResizePartitionFailed"
    /\ table[2].start = 8193
    /\ table[2].end = layout[1].root_end

\* ------------------------------------------------------------------------
\* the planner was called for root = 8G, no swap, no var, on a 32 GiB device
\* that is no SD card and whose root partition starts at sector 8192
MinimumRootScenario ==
    /\ args.root_size = <<"8", "G">>
    /\ args.swap_size = NoneOpt
    /\ args.var_size = NoneOpt
    /\ Checked("calculate_layout")
    /\ disk_info[1].size_bytes = [t |-> 0, s |-> 67108864, r |-> 0]
    /\ ~disk_info[1].is_sd_card
    /\ table # <<>>
    /\ Len(table) >= 2
    /\ table[2].start = 8192

\* C17 as stated: in the scenario the planner succeeds with root_end equal
\* to the first alignment boundary at or after 8192 + 16777216 and home_start
\* equal to the next boundary after root_end + 1.
C17_RootEndAtBoundary ==
    MinimumRootScenario =>
        /\ layout # NoneOpt
        /\ layout[1].root_end = RoundUpToBoundary(8192 + 16777216)
        /\ layout[1].home_start = RoundUpToBoundary(layout[1].root_end + 1)

\* C17, amended: in the scenario the planner succeeds with root_end equal to
\* the sector just before the first alignment boundary at or after
\* 8192 + 16777216 (16785407), home_start equal to that boundary, the first
\* one at or after root_end + 1 (16785408), home_end the last sector of the
\* disk, and a home partition of at least 16 GiB.
C17_RootEndBeforeBoundary ==
    MinimumRootScenario =>
        /\ layout # NoneOpt
        /\ result.error \notin {"InsufficientSpace", "ArithmeticOverflow",
                                "PartitionStartNotFound"}
        /\ layout[1].root_end = RoundUpToBoundary(8192 + 16777216) - 1
        /\ layout[1].root_end = 16785407
        /\ layout[1].home_start = RoundUpToBoundary(layout[1].root_end + 1)
        /\ layout[1].home_start = 16785408
        /\ layout[1].home_end = 67108863
        /\ layout[1].home_size_bytes = [t |-> 0, s |-> 50323456, r |-> 0]
        /\ ~NumBytesLt(layout[1].home_size_bytes, [t |-> 0, s |-> 33554432, r |-> 0])

\* the scenario, planned
C17_Witness ==
    /\ MinimumRootScenario
    /\ layout # NoneOpt
    /\ pc = "dry_run_check"

\* ------------------------------------------------------------------------
\* numbers as binary digits, lowest first, without leading zeros
RECURSIVE BitsOfNat(_)
BitsOfNat(n) == IF n = 0 THEN <<>> ELSE <<n % 2>> \o BitsOfNat(n \div 2)
FixedBits(n, w) == [i \in 1..w |-> (n \div 2^(i - 1)) % 2]
StripBits(b) ==
    IF \A i \in 1..Len(b) : b[i] = 0 THEN <<>>
    ELSE SubSeq(b, 1, CHOOSE i \in 1..Len(b) :
                          b[i] = 1 /\ \A j \in (i + 1)..Len(b) : b[j] = 0)
\* the number a byte count stands for
BitsOfBytes(b) == StripBits(FixedBits(b.r, 9) \o FixedBits(b.s, 31) \o FixedBits(b.t, 24))
\* the non-negative integers n of the size strings, with their values
\* (the last two are 2^53 and 2^53 + 1)
WholeNumbers ==
    {[digits |-> <<"0">>, bits |-> <<>>],
     [digits |-> <<"1">>, bits |-> <<1>>],
     [digits |-> <<"5", "1", "2">>, bits |-> BitsOfNat(512)],
     [digits |-> <<"1", "0", "2", "3">>, bits |-> BitsOfNat(1023)],
     [digits |-> <<"1", "6", "7", "7", "7", "2", "1", "6">>, bits |-> BitsOfNat(16777216)],
     [digits |-> <<"9", "0", "0", "7", "1", "9", "9", "2", "5", "4", "7", "4", "0", "9",
                   "9", "2">>,
      bits |-> [i \in 1..53 |-> 0] \o <<1>>],
     [digits |-> <<"9", "0", "0", "7", "1", "9", "9", "2", "5", "4", "7", "4", "0", "9",
                   "9", "3">>,
      bits |-> <<1>> \o [i \in 1..52 |-> 0] \o <<1>>]}
\* the units with the power k of 1024 they stand for
UnitPowers ==
    {[unit |-> <<>>, k |-> 0],
     [unit |-> <<"K">>, k |-> 1], [unit |-> <<"k">>, k |-> 1],
     [unit |-> <<"M">>, k |-> 2], [unit |-> <<"m">>, k |-> 2],
     [unit |-> <<"G">>, k |-> 3], [unit |-> <<"g">>, k |-> 3],
     [unit |-> <<"T">>, k |-> 4], [unit |-> <<"t">>, k |-> 4]}
\* strings with another unit letter, or without leading digits
OtherUnitOrNoDigits ==
    {<<>>, <<"G">>, <<"8", "X">>, <<"8", "x", "b">>, <<"X", "8">>, <<"M", "B">>,
     <<"-", "1">>, <<".", "5", "G">>}

\* C18: parse_size of the digits of n, then an optional unit K, M, G or T in
\* either case, then an optional B, is n * 1024^k; a string with another unit
\* letter or without leading digits is an error, with no byte count.
C18_ParseSizeExact ==
    Checked("parse_sizes") =>
        /\ \A n \in WholeNumbers, u \in UnitPowers, b \in {<<>>, <<"B">>, <<"b">>} :
               args.swap_size = <<n.digits \o u.unit \o b>> =>
                   /\ result.status # "err"
                   /\ sizes.swap # NoneOpt
                   /\ BitsOfBytes(sizes.swap[1]) = BitsShiftLeft(n.bits, 10 * u.k)
        /\ (args.swap_size # NoneOpt /\ args.swap_size[1] \in OtherUnitOrNoDigits) =>
               /\ result = [status |-> "err", error |-> "ParseError"]
               /\ sizes.swap = NoneOpt

\* ------------------------------------------------------------------------
\* the migration step of one subtree returned success after copying it
Migrated(name, step) ==
    /\ HasCall({"rsync"}) /\ \E i \in 1..Len(calls) : calls[i] = Call("rsync", <<name>>)
    /\ \E i \in 1..Len(steps) : steps[i] = step
    /\ ~(result.status = "err" /\ LastStep = step)

\* C19: when the migration of /var (resp. /home) has returned success and
\* the source subtree existed, what was copied is in the new location and
\* no longer in the old one.
C19_MigratedDataDeleted ==
    /\ Migrated("var", "migrate_var") =>
           /\ tree.new_var = {"data"}
           /\ tree.old_var # NoneOpt
           /\ tree.old_var[1] \cap tree.new_var = {}
    /\ Migrated("home", "migrate_home") =>
           /\ tree.new_home = {"data"}
           /\ tree.old_home # NoneOpt
           /\ tree.old_home[1] \cap tree.new_home = {}

\* ------------------------------------------------------------------------
Max(a, b) == IF a < b THEN b ELSE a

\* C20: in every layout the planner returns, var_start (when a var size
\* above 0 is requested) is the boundary at or after max(swap_end, root_end) + 1,
\* home_start is the boundary at or after max(var_end, swap_end, root_end) + 1
\* and home_end is total_sectors - 1, where the end of a swap or var that is
\* not requested counts as 0.
C20_StartsEqualMaxFormula ==
    layout # NoneOpt =>
        LET l == layout[1]
            swap_end == IF BytesPositive(l.swap_size_bytes) THEN l.swap_end ELSE 0
            var_end == IF BytesPositive(l.var_size_bytes) THEN l.var_end ELSE 0
        IN  /\ l.swap_end = swap_end
            /\ l.var_end = var_end
            /\ BytesPositive(l.var_size_bytes) =>
                   l.var_start = RoundUpToBoundary(Max(swap_end, l.root_end) + 1)
            /\ l.home_start =
                   RoundUpToBoundary(Max(var_end, Max(swap_end, l.root_end)) + 1)
            /\ l.home_end = disk_info[1].size_sectors - 1

\* a returned layout with a swap and a var partition, both of at least one
\* sector
C20_Witness ==
    /\ layout # NoneOpt
    /\ layout[1].swap_size_bytes.s > 0
    /\ layout[1].var_size_bytes.s > 0
    /\ layout[1].swap_end > layout[1].root_end
    /\ layout[1].var_start > layout[1].swap_end

\* ------------------------------------------------------------------------
\* C21: every layout the planner returns lies within the disk: the ends of
\* root, swap and var are below home_start, and home_start is at most
\* home_end, the last sector of the disk; when the sizes push home_start past
\* the last sector, or the disk has no sector, no layout is returned.
C21_LayoutWithinDisk ==
    layout # NoneOpt =>
        LET l == layout[1]
        IN  /\ disk_info[1].size_sectors > 0
            /\ l.home_end = disk_info[1].size_sectors - 1
            /\ l.home_start >= 0 /\ l.home_start <= l.home_end
            /\ l.root_end < l.home_start
            /\ BytesPositive(l.swap_size_bytes) => l.swap_end < l.home_start
            /\ BytesPositive(l.var_size_bytes) => l.var_end < l.home_start

\* ------------------------------------------------------------------------
\* sectors start..end hold at least `size` bytes
HoldsBytes(start, end, size) ==
    LET capacity == end - start + 1
    IN  /\ start <= end
        /\ size.t = 0
        /\ capacity > size.s \/ (capacity = size.s /\ size.r = 0)

\* C22: in a returned layout the range of root, and of swap and var when
\* their requested size is above 0, is not empty and holds at least the
\* requested bytes; no partition is asked of the partitioning tool with an
\* end below its start.
C22_RangesHoldRequestedSize ==
    /\ layout # NoneOpt =>
           LET l == layout[1]
           IN  /\ HoldsBytes(l.root_start, l.root_end, l.root_size_bytes)
               /\ BytesPositive(l.swap_size_bytes) =>
                      HoldsBytes(l.swap_start, l.swap_end, l.swap_size_bytes)
               /\ BytesPositive(l.var_size_bytes) =>
                      HoldsBytes(l.var_start, l.var_end, l.var_size_bytes)
    /\ \A i \in 1..Len(calls) :
           calls[i].tool \in {"parted_mkpart", "parted_rm_mkpart"} =>
               calls[i].a <= calls[i].b

\* ------------------------------------------------------------------------
\* C23: the size resize2fs is asked to shrink the root filesystem to, in KiB,
\* is floor(root_size_bytes / 4096) * 4 and is never more than the bytes of
\* the sectors root_start..root_end, the partition the next step recreates.
C23_ShrinkFitsRootPartition ==
    \A i \in 1..Len(calls) :
        calls[i].tool = "resize2fs" =>
            LET l == layout[1]
                kib == calls[i].a
            IN  /\ kib = ((l.root_size_bytes.s * 512 + l.root_size_bytes.r) \div 4096) * 4
                /\ kib * 2 <= l.root_end - l.root_start + 1
                /\ (HasCall({"parted_rm_mkpart"})
                    /\ result.error # "ResizePartitionFailed") =>
                       kib * 2 <= table[2].end - table[2].start + 1

\* the filesystem was shrunk to exactly the size of the partition that was
\* then recreated, for a root size that is not a multiple of 4096
C23_Witness ==
    /\ HasCall({"resize2fs"})
    /\ HasCall({"parted_rm_mkpart"})
    /\ result.error # "ResizePartitionFailed"
    /\ layout[1].root_size_bytes.r # 0
    /\ CallsOf("resize2fs")[1].a * 2 = table[2].end - table[2].start + 1

\* ------------------------------------------------------------------------
\* C24: the root partition path of get_disk_info is the path that
\* get_partition_device gives partition 2 of the same device: <dev>p2 for an
\* SD card (mmcblk), <dev>2 for a plain device such as /dev/sda.
C24_RootPartitionNamingAgrees ==
    disk_info # NoneOpt =>
        LET d == disk_info[1]
        IN  /\ d.root_partition = PartitionDevicePath(d.device, 2)
            /\ Contains(d.device, "mmcblk") => d.root_partition = d.device \o <<"p", "2">>
            /\ Contains(d.device, "sd") => d.root_partition = d.device \o <<"2">>

\* ------------------------------------------------------------------------
\* C25: update_fstab writes the file only after the read of the file and the
\* identifier lookup of every created partition have succeeded: when the read
\* or a lookup fails the run ends in that error, the file has not been
\* written and its content is the old one, with no entry appended.
C25_FstabWrittenOnlyAfterAllLookups ==
    /\ result.error \in {"FstabReadFailed", "UuidLookupFailed"} =>
           /\ pc = "exit"
           /\ LastStep = "update_fstab"
           /\ ~HasCall({"fstab_write"})
           /\ fstab = OldFstab
    /\ HasCall({"fstab_write"}) =>
           result.error \notin {"FstabReadFailed", "UuidLookupFailed"}
    /\ (created_partitions # NoneOpt /\ result.error # "FstabWriteFailed") =>
           fstab \in {OldFstab, NewFstab(OldFstab, created_partitions[1])}

\* a lookup failed in a run that made a swap and a var partition, so that it
\* may have been the second or the third lookup
C25_Witness ==
    /\ result.error = "UuidLookupFailed"
    /\ created_partitions # NoneOpt
    /\ Len(FstabDevices(created_partitions[1])) = 3
    /\ fstab = OldFstab

====
